---- MODULE Spec2Model ----
(***************************************************************************)
(* A model of the nearest-flight service of there-goes-an-airplane.       *)
(*                                                                         *)
(* The repository holds two variants of the same single-file server:      *)
(*   "csv"     src/main.go          metadata from static CSV tables        *)
(*   "details" src/unnamed/part_000 metadata from a second upstream call   *)
(* Both share getCookie, handler, getClosest*, parseFlightsJSON,           *)
(* feetToMeters, distance and pointToCartesian; the variable `variant`     *)
(* says which file is running.                                             *)
(*                                                                         *)
(* float64 is modelled in fixed point: lengths are whole meters, angles    *)
(* are whole radians looked up in sine/cosine tables of two decimals, and  *)
(* NaN and +Inf are explicit values with IEEE comparison rules.            *)
(***************************************************************************)
EXTENDS Integers, Sequences, FiniteSets, TLC

(***************************************************************************)
(* Bounds of the model.                                                    *)
(***************************************************************************)
\* goroutines serving requests at the same time in a concurrent run
NumHandlers == 2
\* flight entries (keys other than the bookkeeping keys) of one feed body
MaxFlights == 2

(***************************************************************************)
(* float64                                                                 *)
(***************************************************************************)
F(n) == [k |-> "num", v |-> n]
NaN == [k |-> "nan", v |-> 0]
PosInf == [k |-> "inf", v |-> 0]

IsNum(a) == a.k = "num"

\* a < b on float64: false whenever an operand is NaN; nothing exceeds +Inf
FLess(a, b) ==
    /\ a.k = "num"
    /\ \/ b.k = "inf"
       \/ b.k = "num" /\ a.v < b.v

\* a <= b on float64
FLeq(a, b) ==
    \/ a.k = "num" /\ b.k = "inf"
    \/ a.k = "inf" /\ b.k = "inf"
    \/ a.k = "num" /\ b.k = "num" /\ a.v <= b.v

\* floor(a * b / c) without leaving 32 bits, for 0 <= |b| <= c
MulDiv(a, b, c) == (a \div c) * b + ((a % c) * b) \div c

Abs(n) == IF n < 0 THEN -n ELSE n

Max(a, b) == IF a < b THEN b ELSE a

RECURSIVE SqrtSearch(_, _, _)
SqrtSearch(n, lo, hi) ==
    IF lo = hi THEN lo
    ELSE LET mid == (lo + hi + 1) \div 2
         IN  IF mid * mid <= n THEN SqrtSearch(n, mid, hi)
                               ELSE SqrtSearch(n, lo, mid - 1)

\* math.Sqrt on a non-negative fixed-point value: the floor of the root
Sqrt(n) == SqrtSearch(n, 0, 46340)

\* math.Sin and math.Cos at the angles of the model, in hundredths
Angles == {0, 1}
Sin100 == [phi \in Angles |-> IF phi = 0 THEN 0 ELSE 84]
Cos100 == [phi \in Angles |-> IF phi = 0 THEN 100 ELSE 54]

(***************************************************************************)
(* The numeric core: feetToMeters, pointToCartesian, distance              *)
(***************************************************************************)
\* 0.3048, in ten-thousandths
MetersPerFoot == 3048
\* 6378137, the semi-major axis of WGS84 in meters
SemiMajorAxis == 6378137
\* 0.006694379990197619, the eccentricity squared, in millionths
EccentricitySquared == 6694
\* 0.9933056200098024 = 1 - e2, in ten-thousandths
OneMinusE2 == 9933

feetToMeters(feet) ==
    IF IsNum(feet) THEN F(MulDiv(feet.v, MetersPerFoot, 10000)) ELSE NaN

\* the closure N of pointToCartesian: the prime-vertical radius of curvature
PrimeVerticalRadius(phi) ==
    LET s == Sin100[phi]
        w == 1000000 - (EccentricitySquared * s * s) \div 10000
    IN  MulDiv(SemiMajorAxis, 1000, Sqrt(w))

pointToCartesian(longitude, latitude, altitude) ==
    IF ~(IsNum(longitude) /\ IsNum(latitude) /\ IsNum(altitude))
    THEN [x |-> NaN, y |-> NaN, z |-> NaN]
    ELSE LET n == PrimeVerticalRadius(latitude.v)
             r == MulDiv(n + altitude.v, Cos100[latitude.v], 100)
         IN  [x |-> F(MulDiv(r, Cos100[longitude.v], 100)),
              y |-> F(MulDiv(r, Sin100[longitude.v], 100)),
              z |-> F(MulDiv(MulDiv(n, OneMinusE2, 10000) + altitude.v,
                             Sin100[latitude.v], 100))]

\* sqrt(dx^2 + dy^2 + dz^2); like a float, exact to the meter for short
\* separations and to the kilometer for long ones
distance(p1, p2) ==
    IF ~(IsNum(p1.x) /\ IsNum(p1.y) /\ IsNum(p1.z)
         /\ IsNum(p2.x) /\ IsNum(p2.y) /\ IsNum(p2.z))
    THEN NaN
    ELSE LET dx == p2.x.v - p1.x.v
             dy == p2.y.v - p1.y.v
             dz == p2.z.v - p1.z.v
             m == Max(Abs(dx), Max(Abs(dy), Abs(dz)))
         IN  IF m <= 26000
             THEN F(Sqrt(dx * dx + dy * dy + dz * dz))
             ELSE LET kx == Abs(dx) \div 1000
                      ky == Abs(dy) \div 1000
                      kz == Abs(dz) \div 1000
                  IN  F(1000 * Sqrt(kx * kx + ky * ky + kz * kz))

(***************************************************************************)
(* JSON: a body is represented by the value json.Unmarshal yields for it,  *)
(* or by Invalid when the bytes are not JSON at all.                       *)
(***************************************************************************)
JNum(n) == [t |-> "number", n |-> n, s |-> ""]
JStr(s) == [t |-> "string", n |-> 0, s |-> s]
JNull == [t |-> "null", n |-> 0, s |-> ""]
JArr(elems) == [t |-> "array", a |-> elems]
JObj(members) == [t |-> "object", o |-> members]
Invalid == [t |-> "invalid"]

\* one aircraft of the feed, as the upstream lays it out (19 positions, 0..18)
FeedArray(lat, lon, alt, type, dep, arr, airline) ==
    << JStr("4CA1F2"), JNum(lat), JNum(lon), JNum(0), JNum(alt), JNum(0),
       JStr("7000"), JStr("F-EGLL1"), JStr(type), JStr("G-ABCD"), JNum(0),
       JStr(dep), JStr(arr), JStr("BA117"), JNum(0), JNum(0), JStr("BAW117"),
       JNum(0), JStr(airline) >>

\* the first n positions of an array
Truncated(a, n) == SubSeq(a, 1, n)

\* an array with position i (counted from 0, as Go does) holding e
WithAt(a, i, e) == [a EXCEPT ![i + 1] = e]

(***************************************************************************)
(* flightData (main.go) and flightPosition (part_000) as one record: a     *)
(* field the running variant's struct does not have stays at "".           *)
(***************************************************************************)
ZeroFlight ==
    [fr24id |-> "", longitude |-> 0, latitude |-> 0, altitude |-> 0,
     icaoType |-> "", icaoAirline |-> "", iataDeparting |-> "",
     iataArriving |-> ""]

\* status[i].(float64) and status[i].(string) panic when the index is out
\* of range or the element has another type
HasNumber(status, i) == i + 1 <= Len(status) /\ status[i + 1].t = "number"
HasString(status, i) == i + 1 <= Len(status) /\ status[i + 1].t = "string"

\* the indices one loop iteration of parseFlightsJSON reads
NumberIndices == {1, 2, 4}
StringIndices(v) == IF v = "csv" THEN {8, 11, 12, 18} ELSE {}

\* one loop iteration runs to its end (no panic) on this value
Decodable(v, planeData) ==
    /\ planeData.t = "array"
    /\ \A i \in NumberIndices : HasNumber(planeData.a, i)
    /\ \A i \in StringIndices(v) : HasString(planeData.a, i)

\* the record one loop iteration appends, for a decodable value
DecodeRecord(v, key, planeData) ==
    LET status == planeData.a
    IN  IF v = "csv"
        THEN [ZeroFlight EXCEPT !.latitude = status[2].n,
                                !.longitude = status[3].n,
                                !.altitude = status[5].n,
                                !.icaoType = status[9].s,
                                !.iataDeparting = status[12].s,
                                !.iataArriving = status[13].s,
                                !.icaoAirline = status[19].s]
        ELSE [ZeroFlight EXCEPT !.fr24id = key,
                                !.latitude = status[2].n,
                                !.longitude = status[3].n,
                                !.altitude = status[5].n]

Bookkeeping == {"full_count", "version"}

\* the keys with the two delete calls left out
FlightKeysUndeleted(response) == DOMAIN response.o

\* the keys left after delete(flightsData, "full_count") and "version"
FlightKeys(response) == DOMAIN response.o \ Bookkeeping

\* every order in which `range` may visit the keys of a Go map
Orders(keys) ==
    {s \in [1..Cardinality(keys) -> keys] :
        \A i, j \in 1..Cardinality(keys) : s[i] = s[j] => i = j}

\* parseFlightsJSON: every outcome the call can have on this body. A failed
\* Unmarshal leaves response nil, and response.(map[string]interface{})
\* panics on nil and on any value that is not an object; an iteration
\* panics on a value it cannot decode, whatever the order of the visit.
parseFlightsJSON(v, bytes) ==
    IF bytes.t # "object"
    THEN {[panic |-> TRUE, flights |-> << >>]}
    ELSE IF \E key \in FlightKeys(bytes) : ~Decodable(v, bytes.o[key])
    THEN {[panic |-> TRUE, flights |-> << >>]}
    ELSE {[panic |-> FALSE,
           flights |-> [i \in 1..Len(ord) |->
                           DecodeRecord(v, ord[i], bytes.o[ord[i]])]] :
            ord \in Orders(FlightKeys(bytes))}

(***************************************************************************)
(* getClosestPlane / getClosestFlight                                      *)
(***************************************************************************)
\* the loop with `<=` where the code has `<`: a later candidate at the same
\* distance replaces the earlier one
RECURSIVE ClosestLoopLeq(_, _, _, _, _)
ClosestLoopLeq(p, flights, i, minDistance, closestPlane) ==
    IF i > Len(flights) THEN closestPlane
    ELSE LET flight == flights[i]
             pFlight == pointToCartesian(F(flight.longitude),
                                         F(flight.latitude),
                                         F(flight.altitude))
             distanceToFlight == distance(p, pFlight)
         IN  IF FLeq(distanceToFlight, minDistance)
             THEN ClosestLoopLeq(p, flights, i + 1, distanceToFlight, flight)
             ELSE ClosestLoopLeq(p, flights, i + 1, minDistance, closestPlane)

\* the loop body for flights[i], then the rest of the loop
RECURSIVE ClosestLoop(_, _, _, _, _)
ClosestLoop(p, flights, i, minDistance, closestPlane) ==
    IF i > Len(flights) THEN closestPlane
    ELSE LET flight == flights[i]
             pFlight == pointToCartesian(F(flight.longitude),
                                         F(flight.latitude),
                                         F(flight.altitude))
             distanceToFlight == distance(p, pFlight)
         IN  IF FLess(distanceToFlight, minDistance)
             THEN ClosestLoop(p, flights, i + 1, distanceToFlight, flight)
             ELSE ClosestLoop(p, flights, i + 1, minDistance, closestPlane)

\* the function with minDistance starting at 0 where the code has math.Inf(1)
getClosestFlightFromZero(longitude, latitude, altitude, flights) ==
    ClosestLoop(pointToCartesian(longitude, latitude, feetToMeters(altitude)),
                flights, 1, F(0), ZeroFlight)

getClosestFlight(longitude, latitude, altitude, flights) ==
    ClosestLoop(pointToCartesian(longitude, latitude, feetToMeters(altitude)),
                flights, 1, PosInf, ZeroFlight)

(***************************************************************************)
(* strconv.ParseFloat on a query parameter. The handler drops the error,   *)
(* so an absent or malformed parameter reads as 0; "NaN" parses to NaN.    *)
(***************************************************************************)
Numerals == [s \in {"0", "1", "30000"} |->
                IF s = "0" THEN 0 ELSE IF s = "1" THEN 1 ELSE 30000]

ParseFloat(s) ==
    IF s \in DOMAIN Numerals THEN F(Numerals[s])
    ELSE IF s = "NaN" THEN NaN
    ELSE F(0)

(***************************************************************************)
(* Metadata: the CSV tables of main.go, the clickhandler of part_000       *)
(***************************************************************************)
AirlinesCsv == << <<"BAW", "British Airways">>, <<"DLH", "Lufthansa">> >>
PlanesCsv == << <<"B738", "Boeing 737-800">> >>
AirportsCsv == << <<"LHR", "London Heathrow">>, <<"JFK", "New York JFK">> >>

\* mapRecords: first column to second column, a later line winning
mapRecords(records) ==
    [code \in {records[i][1] : i \in 1..Len(records)} |->
        LET last == CHOOSE i \in 1..Len(records) :
                        /\ records[i][1] = code
                        /\ \A j \in 1..Len(records) :
                               records[j][1] = code => j <= i
        IN  records[last][2]]

icaoAirlines == mapRecords(AirlinesCsv)
icaoTypes == mapRecords(PlanesCsv)
iataAirports == mapRecords(AirportsCsv)

\* indexing a Go map: the zero value "" for a key that is not in it
Lookup(table, code) == IF code \in DOMAIN table THEN table[code] ELSE ""

NoDetails == [airline |-> "", aircraft |-> "", origin |-> "", destination |-> ""]

\* parseFlightDetailsJSON and the four fields getFlightDetails returns: a
\* failed Unmarshal is logged and leaves the zero struct
parseFlightDetailsJSON(bytes) ==
    IF bytes.t = "object"
    THEN [airline |-> bytes.o.airline, aircraft |-> bytes.o.aircraft,
          origin |-> bytes.o.origin, destination |-> bytes.o.destination]
    ELSE NoDetails

\* formatFlight of main.go
formatFlightCsv(flight) ==
    Lookup(icaoAirlines, flight.icaoAirline) \o " "
        \o Lookup(icaoTypes, flight.icaoType)
        \o " from " \o Lookup(iataAirports, flight.iataDeparting)
        \o " to " \o Lookup(iataAirports, flight.iataArriving)

\* formatFlight of part_000, given what getFlightDetails returned
formatFlightDetails(d) ==
    LET origin == IF d.origin # "" THEN "from " \o d.origin ELSE ""
        destination == IF d.destination # ""
                       THEN "to " \o d.destination ELSE ""
    IN  d.airline \o " " \o d.aircraft \o " " \o origin \o " " \o destination

NoAircraft == "No aircraft found nearby"

\* the line handler writes: part_000 replaces the all-blank line
ResponseLine(v, flight, d) ==
    IF v = "csv" THEN formatFlightCsv(flight)
    ELSE IF formatFlightDetails(d) = "   " THEN NoAircraft
    ELSE formatFlightDetails(d)

(***************************************************************************)
(* What the outside world may send                                         *)
(***************************************************************************)
Variants == {"csv", "details"}
Tokens == {"fr24id=a", "fr24id=b"}
Handlers == 1..NumHandlers
Methods == {"GET", "POST"}

KeyNames == <<"2f1e0a01", "2f1e0a02", "2f1e0a03", "2f1e0a04">>
Keys == {KeyNames[i] : i \in 1..MaxFlights}

Near == FeedArray(0, 0, 10000, "B738", "LHR", "JFK", "BAW")
Level == FeedArray(0, 0, 30000, "ZZZZ", "", "JFK", "DLH")
Far == FeedArray(1, 0, 30000, "B738", "JFK", "LHR", "BAW")

\* values a flight key may carry: three complete arrays, an array cut
\* before the altitude index, one with a string at the altitude index, one
\* with the three mandatory fields only, one with null at the type index,
\* and a value that is no array
PlaneValues ==
    {JArr(Near), JArr(Level), JArr(Far),
     JArr(Truncated(Near, 4)), JArr(WithAt(Near, 4, JStr("10000"))),
     JArr(Truncated(Level, 5)), JArr(WithAt(Level, 8, JNull)),
     JNum(7)}

BookkeepingMembers ==
    [k \in Bookkeeping |-> IF k = "full_count" THEN JNum(5120) ELSE JNum(4)]

\* f extended by g on the keys f lacks
Merge(f, g) ==
    [k \in DOMAIN f \cup DOMAIN g |-> IF k \in DOMAIN f THEN f[k] ELSE g[k]]

ObjectBodies(values) ==
    LET flightMaps == UNION {[ks -> values] : ks \in SUBSET Keys}
    IN  {JObj(m) : m \in flightMaps}
            \cup {JObj(Merge(m, BookkeepingMembers)) : m \in flightMaps}

\* feed bodies: a run with a single handler draws from every combination
\* of values, a run with several handlers at once from three bodies (the
\* handlers share nothing a body could reach, so the product of the two
\* would only repeat what the two kinds of run show)
FeedBodies(cs) ==
    IF Cardinality(cs) = 1
    THEN ObjectBodies(PlaneValues) \cup {Invalid, JNum(0)}
    ELSE {JObj(BookkeepingMembers),
          JObj(Merge([k \in {KeyNames[1]} |-> JArr(Near)], BookkeepingMembers)),
          Invalid}

FullDetails ==
    [airline |-> "British Airways", aircraft |-> "Boeing 737-800",
     origin |-> "London Heathrow", destination |-> "New York JFK"]

DetailBodies(cs) ==
    IF Cardinality(cs) = 1
    THEN {JObj(FullDetails), JObj([FullDetails EXCEPT !.origin = ""]),
          JObj([FullDetails EXCEPT !.destination = ""]), JObj(NoDetails),
          Invalid}
    ELSE {JObj(FullDetails), Invalid}

Queries(cs) ==
    IF Cardinality(cs) = 1
    THEN [longitude : {"0"}, latitude : {"0", "1"},
          altitude : {"30000", "NaN", ""}]
    ELSE [longitude : {"0"}, latitude : {"0"}, altitude : {"30000"}]

NoQuery == [longitude |-> F(0), latitude |-> F(0), altitude |-> F(0)]

(***************************************************************************)
(* State                                                                   *)
(***************************************************************************)
VARIABLES
    variant,        \* which of the two files is built
    clients,        \* the handler goroutines of this run: one, or NumHandlers
    proc,           \* "init", "main", "serving" or "exited"
    fr24idCookie,   \* the package variable
    pc,             \* where each handler stands
    query,          \* longitude, latitude, altitude as handler parsed them
    header,         \* the Cookie header of the handler's last upstream request
    body,           \* the feed body getFlights read, until the loop has run
    flights,        \* what parseFlightsJSON returned to the handler
    closestPlane,   \* what getClosestPlane / getClosestFlight returned
    details,        \* what getFlightDetails returned (part_000)
    response        \* what handler wrote to the client

vars == <<variant, clients, proc, fr24idCookie, pc, query, header, body,
          flights, closestPlane, details, response>>

locals == <<pc, query, header, body, flights, closestPlane, details, response>>

NoHeader == "none"
NoBody == [t |-> "none"]
NoResponse == [status |-> 0, text |-> ""]

Init ==
    /\ variant \in Variants
    /\ clients \in {{1}, Handlers}
    /\ proc = "init"
    /\ fr24idCookie = ""
    /\ pc = [h \in Handlers |-> "idle"]
    /\ query = [h \in Handlers |-> NoQuery]
    /\ header = [h \in Handlers |-> NoHeader]
    /\ body = [h \in Handlers |-> NoBody]
    /\ flights = [h \in Handlers |-> << >>]
    /\ closestPlane = [h \in Handlers |-> ZeroFlight]
    /\ details = [h \in Handlers |-> NoDetails]
    /\ response = [h \in Handlers |-> NoResponse]

(***************************************************************************)
(* Start-up                                                                *)
(***************************************************************************)
\* var fr24idCookie = getCookie(): the token of the first set-cookie header;
\* log.Fatal when the GET fails, a panic on cookies[0] when no cookie is set
getCookie ==
    /\ proc = "init"
    /\ \/ \E id \in Tokens : fr24idCookie' = id /\ proc' = "main"
       \/ fr24idCookie' = fr24idCookie /\ proc' = "exited"
    /\ UNCHANGED <<variant, clients, locals>>

\* main: register handler and listen
main ==
    /\ proc = "main"
    /\ proc' = "serving"
    /\ UNCHANGED <<variant, clients, fr24idCookie, locals>>

(***************************************************************************)
(* One request. net/http runs handler in a goroutine of its own per        *)
(* connection and recovers a panic of that goroutine (the connection is    *)
(* dropped without a response); log.Fatal is os.Exit(1) for the process.   *)
(***************************************************************************)
Running(h) == proc = "serving" /\ h \in clients

\* handler, up to the call of getClosestPlane / getClosestFlight
handler(h) ==
    /\ Running(h)
    /\ pc[h] \in {"idle", "done", "panicked"}
    /\ header' = [header EXCEPT ![h] = NoHeader]
    /\ body' = [body EXCEPT ![h] = NoBody]
    /\ flights' = [flights EXCEPT ![h] = << >>]
    /\ closestPlane' = [closestPlane EXCEPT ![h] = ZeroFlight]
    /\ details' = [details EXCEPT ![h] = NoDetails]
    /\ \E method \in Methods :
          IF method = "GET"
          THEN \E q \in Queries(clients) :
                  /\ query' = [query EXCEPT ![h] =
                                  [longitude |-> ParseFloat(q.longitude),
                                   latitude |-> ParseFloat(q.latitude),
                                   altitude |-> ParseFloat(q.altitude)]]
                  /\ response' = [response EXCEPT ![h] = NoResponse]
                  /\ pc' = [pc EXCEPT ![h] = "getFlights"]
          ELSE /\ query' = [query EXCEPT ![h] = NoQuery]
               /\ response' = [response EXCEPT ![h] =
                                  [status |-> 405, text |-> "Incorrect method"]]
               /\ pc' = [pc EXCEPT ![h] = "done"]
    /\ UNCHANGED <<variant, clients, proc, fr24idCookie>>

\* the request with a token fetched anew for it
SendRequestRefreshing(h) ==
    \E id \in Tokens :
        /\ fr24idCookie' = id
        /\ header' = [header EXCEPT ![h] = id]

\* httpGet, the request: req.Header.Set("Cookie", fr24idCookie)
SendRequest(h) ==
    /\ header' = [header EXCEPT ![h] = fr24idCookie]
    /\ fr24idCookie' = fr24idCookie

\* httpGet, the three error branches: log.Fatal(err)
Fatal(h) ==
    /\ proc' = "exited"
    /\ pc' = [pc EXCEPT ![h] = "fatal"]

\* getFlights: the feed request, then parseFlightsJSON on the body read
getFlights(h) ==
    /\ Running(h)
    /\ pc[h] = "getFlights"
    /\ SendRequest(h)
    /\ \/ /\ Fatal(h)
          /\ UNCHANGED <<body, flights>>
       \/ /\ \E bytes \in FeedBodies(clients) :
                /\ body' = [body EXCEPT ![h] = bytes]
                /\ \E out \in parseFlightsJSON(variant, bytes) :
                      IF out.panic
                      THEN /\ pc' = [pc EXCEPT ![h] = "panicked"]
                           /\ UNCHANGED flights
                      ELSE /\ pc' = [pc EXCEPT ![h] = "getClosest"]
                           /\ flights' = [flights EXCEPT ![h] = out.flights]
          /\ UNCHANGED proc
    /\ UNCHANGED <<variant, clients, query, closestPlane, details, response>>

\* the loop of getClosestPlane / getClosestFlight and its return
getClosest(h) ==
    /\ Running(h)
    /\ pc[h] = "getClosest"
    /\ closestPlane' = [closestPlane EXCEPT ![h] =
          getClosestFlight(query[h].longitude, query[h].latitude,
                           query[h].altitude, flights[h])]
    /\ body' = [body EXCEPT ![h] = NoBody]
    /\ pc' = [pc EXCEPT ![h] =
                 IF variant = "csv" THEN "formatFlight" ELSE "getFlightDetails"]
    /\ UNCHANGED <<variant, clients, proc, fr24idCookie, query, header,
                   flights, details, response>>

\* getFlightDetails (part_000): the clickhandler request for
\* closestPlane.fr24id and the four names decoded from its body
getFlightDetails(h) ==
    /\ Running(h)
    /\ pc[h] = "getFlightDetails"
    /\ SendRequest(h)
    /\ \/ /\ Fatal(h)
          /\ UNCHANGED details
       \/ /\ \E bytes \in DetailBodies(clients) :
                 details' = [details EXCEPT ![h] = parseFlightDetailsJSON(bytes)]
          /\ pc' = [pc EXCEPT ![h] = "formatFlight"]
          /\ UNCHANGED proc
    /\ UNCHANGED <<variant, clients, query, body, flights, closestPlane,
                   response>>

\* formatFlight and fmt.Fprint(w, response)
respond(h) ==
    /\ Running(h)
    /\ pc[h] = "formatFlight"
    /\ response' = [response EXCEPT ![h] =
          [status |-> 200,
           text |-> ResponseLine(variant, closestPlane[h], details[h])]]
    /\ pc' = [pc EXCEPT ![h] = "done"]
    /\ UNCHANGED <<variant, clients, proc, fr24idCookie, query, header, body,
                   flights, closestPlane, details>>

Next ==
    \/ getCookie
    \/ main
    \/ \E h \in Handlers : handler(h)
    \/ \E h \in Handlers : getFlights(h)
    \/ \E h \in Handlers : getClosest(h)
    \/ \E h \in Handlers : getFlightDetails(h)
    \/ \E h \in Handlers : respond(h)

Spec == Init /\ [][Next]_vars

(***************************************************************************)
(* Properties                                                              *)
(***************************************************************************)
\* h's call of getClosestPlane / getClosestFlight has returned
Selected(h) ==
    \/ pc[h] \in {"formatFlight", "getFlightDetails"}
    \/ pc[h] = "done" /\ response[h].status = 200

\* h's call of parseFlightsJSON has returned
Decoded(h) == pc[h] = "getClosest"

\* h's call of parseFlightsJSON has returned or panicked
ParseOver(h) == pc[h] = "panicked" \/ Decoded(h)

\* the distance the loop of h computes for a flight
LoopDistance(h, flight) ==
    distance(pointToCartesian(query[h].longitude, query[h].latitude,
                              feetToMeters(query[h].altitude)),
             pointToCartesian(F(flight.longitude), F(flight.latitude),
                              F(flight.altitude)))

Candidates(h) == {flights[h][i] : i \in 1..Len(flights[h])}

\* flights[h][i] is returned, none is nearer, every earlier one is farther
FirstNearest(h, i) ==
    /\ closestPlane[h] = flights[h][i]
    /\ LET best == LoopDistance(h, flights[h][i])
       IN  /\ \A j \in 1..Len(flights[h]) :
                 FLeq(best, LoopDistance(h, flights[h][j]))
           /\ \A j \in 1..(i - 1) :
                 FLess(best, LoopDistance(h, flights[h][j]))

ObjectOfArrays(bytes) ==
    /\ bytes.t = "object"
    /\ \A key \in DOMAIN bytes.o \ Bookkeeping : bytes.o[key].t = "array"

\* an array that holds numbers at the latitude, longitude and altitude indices
HasMandatory(planeData) == \A i \in NumberIndices : HasNumber(planeData.a, i)

\* the string at position i, "" when the position is absent or no string
StringOrBlank(status, i) == IF HasString(status, i) THEN status[i + 1].s ELSE ""

\* the candidate a tolerant decoder makes of an array with the mandatory
\* fields: the metadata the running variant keeps, blank where absent
TolerantRecord(v, key, planeData) ==
    LET status == planeData.a
    IN  IF v = "csv"
        THEN [ZeroFlight EXCEPT !.latitude = status[2].n,
                                !.longitude = status[3].n,
                                !.altitude = status[5].n,
                                !.icaoType = StringOrBlank(status, 8),
                                !.iataDeparting = StringOrBlank(status, 11),
                                !.iataArriving = StringOrBlank(status, 12),
                                !.icaoAirline = StringOrBlank(status, 18)]
        ELSE [ZeroFlight EXCEPT !.fr24id = key,
                                !.latitude = status[2].n,
                                !.longitude = status[3].n,
                                !.altitude = status[5].n]

\* C3 as claimed: when a batch of arrays holds a record without a number at
\* a mandatory index, the decode still returns, and returns exactly the
\* records of the well-formed entries.
C3_MalformedRecordDropped ==
    \A h \in Handlers :
        /\ ParseOver(h)
        /\ ObjectOfArrays(body[h])
        /\ \E key \in DOMAIN body[h].o \ Bookkeeping :
               ~HasMandatory(body[h].o[key])
        => /\ pc[h] # "panicked"
           /\ Candidates(h) =
                 {DecodeRecord(variant, key, body[h].o[key]) :
                    key \in {k \in DOMAIN body[h].o \ Bookkeeping :
                                Decodable(variant, body[h].o[k])}}

\* C4 as claimed: when every array of a batch holds the mandatory numbers,
\* the decode returns and yields a candidate for every entry, with blank
\* metadata where an optional index is absent or holds no string.
C4_MissingMetadataTolerated ==
    \A h \in Handlers :
        /\ ParseOver(h)
        /\ ObjectOfArrays(body[h])
        /\ \A key \in DOMAIN body[h].o \ Bookkeeping :
               HasMandatory(body[h].o[key])
        => /\ pc[h] # "panicked"
           /\ Candidates(h) =
                 {TolerantRecord(variant, key, body[h].o[key]) :
                    key \in DOMAIN body[h].o \ Bookkeeping}

\* C5 as claimed: a body that is not an object of arrays never makes the
\* request panic; the handler goes on to answer.
C5_BadShapeIsNoResult ==
    \A h \in Handlers :
        ParseOver(h) /\ ~ObjectOfArrays(body[h]) => pc[h] # "panicked"

\* C6 as claimed: a handler whose fetch failed leaves the process serving.
C6_FetchFailureNotFatal ==
    \A h \in Handlers : pc[h] = "fatal" => proc = "serving"

\* the distance for a flight with the candidate's altitude converted from
\* feet to meters like the observer's
MetricDistance(h, flight) ==
    distance(pointToCartesian(query[h].longitude, query[h].latitude,
                              feetToMeters(query[h].altitude)),
             pointToCartesian(F(flight.longitude), F(flight.latitude),
                              feetToMeters(F(flight.altitude))))

\* C7 as claimed: observer and candidates are compared with their altitudes
\* converted by the same constant, so the flight returned is a nearest one
\* of the candidates with all altitudes in meters.
C7_SameUnitForAll ==
    \A h \in Handlers :
        /\ Selected(h)
        /\ flights[h] # << >>
        /\ IsNum(query[h].altitude)
        => /\ closestPlane[h] \in Candidates(h)
           /\ \A f \in Candidates(h) :
                 FLeq(MetricDistance(h, closestPlane[h]), MetricDistance(h, f))

\* C8: for a body whose flight entries are all decodable, parseFlightsJSON
\* returns, and returns one record per key other than full_count and
\* version, whether or not those two keys are present.
C8_BookkeepingExcluded ==
    \A h \in Handlers :
        /\ ParseOver(h)
        /\ body[h].t = "object"
        /\ \A key \in DOMAIN body[h].o \ Bookkeeping :
               Decodable(variant, body[h].o[key])
        => /\ pc[h] # "panicked"
           /\ Len(flights[h]) = Cardinality(DOMAIN body[h].o \ Bookkeeping)
           /\ \E ord \in Orders(DOMAIN body[h].o \ Bookkeeping) :
                 \A i \in 1..Len(flights[h]) :
                    flights[h][i] =
                        DecodeRecord(variant, ord[i], body[h].o[ord[i]])

\* a body with both bookkeeping keys and two flight entries was decoded
C8_Witness ==
    \E h \in Handlers :
        /\ Decoded(h)
        /\ Bookkeeping \subseteq DOMAIN body[h].o
        /\ Cardinality(DOMAIN body[h].o) >= 4
        /\ Len(flights[h]) = Cardinality(DOMAIN body[h].o) - 2

\* the response line of the interface: names separated by blanks, the
\* "from" and "to" clauses only for a resolved origin and destination
ClaimedLine(d) ==
    d.airline \o " " \o d.aircraft \o " "
        \o (IF d.origin # "" THEN "from " \o d.origin ELSE "") \o " "
        \o (IF d.destination # "" THEN "to " \o d.destination ELSE "")

\* the four names as the running variant resolves them
ResolvedNames(h) ==
    IF variant = "csv"
    THEN [airline |-> Lookup(icaoAirlines, closestPlane[h].icaoAirline),
          aircraft |-> Lookup(icaoTypes, closestPlane[h].icaoType),
          origin |-> Lookup(iataAirports, closestPlane[h].iataDeparting),
          destination |-> Lookup(iataAirports, closestPlane[h].iataArriving)]
    ELSE details[h]

\* C9 as claimed: the line written is the fixed message when the candidate
\* set was empty, and the line of the interface otherwise.
C9_ResponseLine ==
    \A h \in Handlers :
        pc[h] = "done" /\ response[h].status = 200 =>
            response[h].text =
                IF flights[h] = << >> THEN NoAircraft
                ELSE ClaimedLine(ResolvedNames(h))

\* everything a handler holds
LocalsOf(h) ==
    <<pc[h], query[h], header[h], body[h], flights[h], closestPlane[h],
      details[h], response[h]>>

\* no request before the token is set; every request sent carries it
TokenInv ==
    /\ proc = "init" => \A h \in Handlers : pc[h] = "idle"
    /\ proc \in {"main", "serving"} => fr24idCookie \in Tokens
    /\ \A h \in Handlers : header[h] \in {NoHeader, fr24idCookie}

\* the token is written at start-up only; a step changes the locals of at
\* most one handler
TokenStep ==
    /\ fr24idCookie' # fr24idCookie => proc = "init"
    /\ \A h, g \in Handlers :
          h # g /\ LocalsOf(h)' # LocalsOf(h) => LocalsOf(g)' = LocalsOf(g)

\* C10: the token is written once, before any request is handled, and never
\* again; every upstream request of every handler carries that value; a
\* handler's step leaves every other handler's candidate set and result
\* alone.
C10_TokenWrittenOnce == []TokenInv /\ [][TokenStep]_vars

\* two handlers in flight at once, each having sent the token, holding
\* different candidate sets
C10_Witness ==
    \E h, g \in Handlers :
        /\ h # g
        /\ header[h] = fr24idCookie /\ header[g] = fr24idCookie
        /\ pc[h] = "getClosest" /\ pc[g] = "getClosest"
        /\ flights[h] # << >> /\ flights[g] = << >>

====
